---- MODULE Spec2Model ----
(***************************************************************************)
(* Model of the tool-calling orchestration loops of the marketing          *)
(* assistant backend:                                                      *)
(*   GenAIOrchestrator.stream_response  (backend/src/mcp/orchestrator_genai.py) *)
(*   AgentOrchestrator.stream_response  (backend/src/mcp/orchestrator.py)  *)
(* One behaviour of the model is one invocation of stream_response.  The   *)
(* language model, the retrieval provider and the tool backends are the    *)
(* environment: their answers are drawn nondeterministically.              *)
(*                                                                         *)
(* Two kinds of language model are explored.  The insistent model answers  *)
(* every generation call with the same number of function calls and never  *)
(* with text (the mock of the termination scenarios); every tool then      *)
(* succeeds.  The answering model answers with one text part unless it     *)
(* deviates; every deviation of an argument or of an environment answer    *)
(* from the nominal run is counted in varied, which MaxVaried bounds.      *)
(***************************************************************************)
EXTENDS Integers, Sequences, FiniteSets, TLC

(***************************************************************************)
(* Bounds of the exploration (not program constants).                      *)
(***************************************************************************)
\* parts in one response content (GenAI) or in one stream chunk (Agent)
MaxParts == 2
\* stream chunks in one streamed response (Agent)
MaxChunks == 2
\* deviations from the nominal run, per invocation with the answering model
\* (nominal: a history of one user message, use_rag set, no retrieved or
\* memory context, one text part per response, one chunk per stream, every
\* tool succeeds; a generation call or retrieval that raises is not counted)
MaxVaried == 3

(***************************************************************************)
(* Program constants.                                                      *)
(***************************************************************************)
\* variant of max_iterations: one iteration more
max_iterations_plus_one == 10 + 1
\* orchestrator_genai.py: max_iterations = 10
max_iterations == 10
\* orchestrator.py: max_tool_calls = 10
max_tool_calls == 10
\* variant of MAX_RETRIES: one attempt more
MAX_RETRIES_plus_one == 3 + 1
\* orchestrator.py: MAX_RETRIES = 3
MAX_RETRIES == 3
\* orchestrator_genai.py: response_text_length > 100
TextStopLength == 100

(***************************************************************************)
(* Values.                                                                 *)
(***************************************************************************)
\* A tool result: the payload, or the dict {"error": message}; a message is a
\* tuple of words
NoResult == [error |-> <<>>, data |-> ""]
OkResult == [error |-> <<>>, data |-> "rows"]
ErrResult(m) == [error |-> m, data |-> ""]

\* _serialize_result (orchestrator_genai.py) and _serialize_for_function_response
\* (orchestrator.py): a dict result becomes {"result": json.dumps(result)}
JsonDumps(r) == <<"json", r>>
SerializeResult(r) == [result |-> JsonDumps(r)]
SerializeForFunctionResponse(r) == [result |-> JsonDumps(r)]

\* Part of a Content: text, function_call or function_response
TextPart(t) == [kind |-> "text", name |-> "", text |-> t, result |-> NoResult]
FCPart(n) == [kind |-> "fc", name |-> n, text |-> <<"7d">>, result |-> NoResult]
FRPart(n, r) == [kind |-> "fr", name |-> n, text |-> <<>>, result |-> r]
Content(r, ps) == [role |-> r, parts |-> ps]

\* Stream events yielded by stream_response
TextEvent(t) ==
    [type |-> "text", content |-> t, tool_name |-> "", status |-> "",
     result |-> NoResult, tool_input |-> <<>>]
\* tool_args = dict(fc.args): the arguments the model gave for the call of n
ToolInput(n) == <<"args of", n>>

\* variant of ToolEvent: the completed event does not repeat the input
ToolEventInputWhenRunning(n, s, r) ==
    [type |-> "tool_call", content |-> <<>>, tool_name |-> n, status |-> s,
     result |-> r, tool_input |-> IF s = "running" THEN ToolInput(n) ELSE <<>>]

ToolEvent(n, s, r) ==
    [type |-> "tool_call", content |-> <<>>, tool_name |-> n, status |-> s,
     result |-> r, tool_input |-> ToolInput(n)]
ErrorEvent(m) ==
    [type |-> "error", content |-> <<m>>, tool_name |-> "", status |-> "",
     result |-> NoResult, tool_input |-> <<>>]
DoneEvent ==
    [type |-> "done", content |-> <<>>, tool_name |-> "", status |-> "",
     result |-> NoResult, tool_input |-> <<>>]

\* Tool names the model may request.  run_report is routed to the Analytics
\* tool, foo_bar and set_timeout to no tool at all.
PlainTool == "run_report"
ToolNames == {"run_report", "foo_bar", "set_timeout"}

\* Text the model may produce: a token and its length in characters
ModelTexts == {<<"answer">>}
TextLen(t) == IF t = <<"answer">> THEN 120 ELSE 0

ModelParts == {FCPart(n) : n \in ToolNames} \cup {TextPart(t) : t \in ModelTexts}

RECURSIVE SeqsUpTo(_, _)
SeqsUpTo(S, n) ==
    IF n = 0 THEN {<<>>}
    ELSE LET shorter == SeqsUpTo(S, n - 1)
         IN  shorter \cup {Append(s, x) : s \in {t \in shorter : Len(t) = n - 1}, x \in S}

\* What one response content (or one stream chunk) may hold
PartLists == SeqsUpTo(ModelParts, MaxParts)
PlainText == <<TextPart(<<"answer">>)>>
\* n function calls of the plain tool
PlainCalls(n) == [i \in 1..n |-> FCPart(PlainTool)]

\* Conversation histories handed to stream_response
UserMsg(c) == [role |-> "user", content |-> c]
AssistantMsg(c) == [role |-> "assistant", content |-> c]
NominalMessages == <<UserMsg("clicks?")>>
MessageLists ==
    { NominalMessages,
      <<UserMsg("visits?"), AssistantMsg("1200"), UserMsg("clicks?")>>,
      <<UserMsg("clicks?"), AssistantMsg("1200"), UserMsg("clicks?")>> }

\* What get_context_for_query and get_conversation_summary may return
RagContexts == {"", "ctx"}
MemoryContexts == {"", "mem"}
\* str(e) of the exceptions the environment raises
ExcRetrieval == "connection refused"
ExcModel == "model api 503"

IsFC(p) == p.kind = "fc"
IsText(p) == p.kind = "text"

\* How a tool backend answers a dispatch: attempt number -> outcome
BackendModes == {"ok", "error", "raise", "timeout", "flaky"}
BackendOutcome(mode, attempt) ==
    CASE mode = "flaky" -> IF attempt = 0 THEN "timeout" ELSE "ok"
      [] OTHER -> mode

VARIABLES
    orch,                   \* "genai" or "agent": the class whose stream_response runs
    messages,               \* argument: conversation history
    use_rag,                \* argument
    pc,                     \* position of the generator
    contents,               \* transcript passed to generate_content
    rag_context,            \* what get_context_for_query returned
    memory_context,         \* Agent: what _get_memory_context returned
    events,                 \* events yielded so far
    total_tool_calls,
    iteration,              \* GenAI: number of loop iterations started
    text_response_count,    \* GenAI
    total_text_emitted,     \* GenAI
    response,               \* GenAI: parts of the response being processed
    function_calls,         \* GenAI: function calls of the response
    fci,                    \* GenAI: index of the function call being processed
    function_response_parts,\* GenAI
    tool_name,              \* name of the tool call being processed
    result,                 \* result of the tool call being processed
    chunk_count,            \* Agent: chunks read from the first response stream
    chunk,                  \* Agent: parts of the chunk being processed
    pi,                     \* Agent: index of the part being processed
    tool_call_count,        \* Agent: counter of the follow-up loop
    fchunks,                \* Agent: chunks read from the follow-up stream
    follow_chunk,           \* Agent: parts of the follow-up chunk being processed
    fi,                     \* Agent: index of the follow-up part being processed
    has_function_call,      \* Agent
    next_tool_name,         \* Agent: tool of the follow-up call being processed
    next_result,            \* Agent: result of the follow-up call
    attempt,                \* Agent: loop variable of _execute_tool_with_retry
    backend,                \* how the backend of the call in progress answers
    gen_calls,              \* history: generate_content calls issued
    unanswered,             \* history: function calls received and not answered in contents
    gen_failures,           \* history: the generation calls that raised, "first" or "follow"
    dispatches,             \* history: _execute_tool calls made for the tool call in
                            \* progress (or the last one completed)
    connected,              \* the caller still reads the event stream
    stored,                 \* chat.py: ChatMessage rows of the session, by created_at
    request_message,        \* chat.py: request.message
    chat_pc,                \* chat.py: position of stream_chat
    history,                \* chat.py: rows returned by history_query
    stream,                 \* chat.py: the events orchestrator.stream_response yields
    ei,                     \* chat.py: number of events of stream read
    full_response,          \* chat.py: texts received so far
    tool_calls_data,        \* chat.py: data of the tool_call events received
    sse,                    \* chat.py: the SSE events sent to the caller
    memory_enabled,         \* orchestrator.py: self.memory is not None
    context_table,          \* memory.py: rows of the agent_context table
    session_pc,             \* per chat session: a run of stream_response is open
    session_msg,            \* per chat session: the user message of its latest run
    session_contents,       \* per chat session: contents assembled by its latest run
    session_alone,          \* history: the contents that run assembles from the rows
                            \* of its own session only
    text,                   \* ingestion.py: argument of chunk_text, as characters
    chunk_size,             \* ingestion.py: argument of chunk_text
    overlap,                \* ingestion.py: argument of chunk_text
    start,                  \* ingestion.py: start position of chunk_text
    text_chunks,            \* ingestion.py: chunks of chunk_text
    cpc,                    \* ingestion.py: position of chunk_text
    iterations,             \* history: iterations of the while loop of chunk_text
    document,               \* documents.py: the row of the documents table, NoDocument
                            \* before the upload
    document_chunks,        \* documents.py: the rows of document_chunks of the document
    file_chunks,            \* ingestion.py: len(chunk_text(text)) of the uploaded file
    tasks,                  \* ingestion.py: position of each process_document run
    rows,                   \* retrieval.py: document_chunks with their similarity to
                            \* the query
    threshold,              \* retrieval.py: argument, in hundredths
    top_k,                  \* retrieval.py: argument
    max_tokens,             \* retrieval.py: argument
    rpc,                    \* retrieval.py: position of get_context_for_query
    chunks,                 \* retrieval.py: result of search_similar_chunks
    ci,                     \* retrieval.py: index of the chunk of the for loop
    accepted,               \* retrieval.py: context_parts of get_context_for_query
    total_tokens,           \* retrieval.py
    context,                \* retrieval.py: value returned by get_context_for_query
    insist,                 \* environment: function calls per response of the insistent
                            \* model, 0 for the answering model
    varied                  \* environment: deviations so far

argvars == <<orch, messages, use_rag>>
genaivars == <<iteration, text_response_count, total_text_emitted, response,
               function_calls, fci, function_response_parts>>
agentvars == <<chunk_count, chunk, pi, tool_call_count, fchunks, follow_chunk, fi,
               has_function_call, next_tool_name, next_result, attempt, backend>>
histvars == <<gen_calls, unanswered, gen_failures>>
ctxvars == <<rag_context, memory_context>>
\* what one invocation of stream_response changes besides its arguments
streamvars == <<pc, contents, events, total_tool_calls, tool_name, result, genaivars,
                agentvars, histvars, dispatches, ctxvars, connected>>
chatvars == <<stored, request_message, chat_pc, history, stream, ei, full_response,
             tool_calls_data, sse>>
retrievalvars == <<rows, threshold, top_k, max_tokens, rpc, chunks, ci, accepted,
                   total_tokens, context>>
\* variables that no step of stream_response changes
memvars == <<memory_enabled, context_table, session_pc, session_msg, session_contents,
             session_alone>>
chunkvars == <<text, chunk_size, overlap, start, text_chunks, cpc, iterations>>
ingestvars == <<document, document_chunks, file_chunks, tasks>>
sidevars == <<memvars, chunkvars, ingestvars>>
fixedvars == <<insist, connected, chatvars, retrievalvars, sidevars>>
vars == <<argvars, pc, contents, events, total_tool_calls, tool_name, result,
          genaivars, agentvars, histvars, dispatches, ctxvars, fixedvars, varied>>

(***************************************************************************)
(* The environment                                                         *)
(***************************************************************************)
Insistent == insist > 0

\* cost of an argument or answer: 0 for the nominal one
Cost(nominal) == IF nominal THEN 0 ELSE 1

\* the environment gives an answer that costs c deviations
Spend(c) ==
    /\ Insistent => c = 0
    /\ varied + c <= MaxVaried
    /\ varied' = varied + c

\* the part lists the model may put in a response content or a stream chunk
ModelAnswers == IF Insistent THEN {PlainCalls(insist)} ELSE PartLists

\* cost of a response content or stream chunk: each part of an answer other
\* than the nominal one is a deviation, and so is an answer without parts
AnswerCost(ps) ==
    IF Insistent \/ ps = PlainText THEN 0
    ELSE IF ps = <<>> THEN 1 ELSE Len(ps)

\* the ways the backend of a registered tool may behave
ToolAnswers == IF Insistent THEN {"ok"} ELSE BackendModes

(***************************************************************************)
(* Helpers                                                                 *)
(***************************************************************************)
RECURSIVE SumLen(_)
SumLen(ts) == IF ts = <<>> THEN 0 ELSE TextLen(Head(ts).text) + SumLen(Tail(ts))

\* variant of TextEvents: the text parts are dropped
NoTextEvents(ps) == <<>>

\* one text event per text part, in order (orchestrator_genai.py, lines 310-312)
TextEvents(ps) == [k \in 1..Len(ps) |-> TextEvent(ps[k].text)]

\* variant of Fail: the except clause yields the error and returns
FailWithoutDone(msg) ==
    /\ events' = Append(events, ErrorEvent(msg))
    /\ pc' = "done"

\* the except clause of stream_response: yield error, yield done
Fail(msg) ==
    /\ events' = events \o <<ErrorEvent(msg), DoneEvent>>
    /\ pc' = "done"


(***************************************************************************)
(* Tool dispatch: GenAIOrchestrator._execute_tool                          *)
(***************************************************************************)
\* the tool object a name is routed to ("none": no branch matches)
GenAIRoute(name) ==
    CASE name \in {"run_report", "run_realtime_report", "get_property_details",
                   "get_account_summaries"} -> "ga"
      [] name \in {"search_knowledge_base", "list_documents"} -> "kb"
      [] name = "web_search" -> "web"
      [] name = "bq_run_query" -> "bq"
      [] name = "leads_from_google_ads" -> "leads"
      [] OTHER -> "none"

GenAIExecuteTool(name, outcome) ==
    IF GenAIRoute(name) = "none" THEN ErrResult(<<"Unknown tool:", name>>)
    ELSE CASE outcome = "ok" -> OkResult
           [] outcome = "error" -> ErrResult(<<"invalid", "argument">>)
           [] outcome = "timeout" -> ErrResult(<<"timeout">>)
           [] OTHER -> ErrResult(<<"boom">>)

(***************************************************************************)
(* Conversation assembly                                                   *)
(***************************************************************************)
LastUserMsg(msgs) ==
    LET idx == {i \in 1..Len(msgs) : msgs[i].role = "user"}
    IN  IF idx = {} THEN "" ELSE msgs[CHOOSE i \in idx : \A j \in idx : j <= i].content

\* lines 235-240: get_context_for_query is called
Retrieves == use_rag /\ messages # <<>> /\ LastUserMsg(messages) # ""

\* variant of GenAIContents: the last user turn is labelled whatever rag holds
GenAIContentsAlwaysLabelled(msgs, rag) ==
    [i \in 1..Len(msgs) |->
        LET msg == msgs[i]
            role == IF msg.role = "user" THEN "user" ELSE "model"
            content ==
                IF role = "user" /\ msg = msgs[Len(msgs)]
                THEN <<"**Contexto:**", rag, "**Pregunta:**", msg.content>>
                ELSE <<msg.content>>
        IN  Content(role, <<TextPart(content)>>)]

\* lines 244-256: the conversation turns built from messages
GenAIContents(msgs, rag) ==
    [i \in 1..Len(msgs) |->
        LET msg == msgs[i]
            role == IF msg.role = "user" THEN "user" ELSE "model"
            content ==
                IF role = "user" /\ msg = msgs[Len(msgs)] /\ rag # ""
                THEN <<"**Contexto:**", rag, "**Pregunta:**", msg.content>>
                ELSE <<msg.content>>
        IN  Content(role, <<TextPart(content)>>)]

(***************************************************************************)
(* GenAIOrchestrator.stream_response                                       *)
(***************************************************************************)
\* lines 230-256: retrieval and conversation assembly
GenAIBuildContents ==
    /\ orch = "genai"
    /\ pc = "start"
    /\ UNCHANGED <<argvars, genaivars, agentvars, histvars, total_tool_calls,
                   tool_name, result, fixedvars, memory_context, dispatches>>
    /\ \/ \E ctx \in RagContexts :
            /\ Retrieves \/ ctx = ""
            /\ Spend(Cost(ctx = ""))
            /\ rag_context' = ctx
            /\ contents' = GenAIContents(messages, ctx)
            /\ pc' = "gen"
            /\ UNCHANGED events
       \/ \* get_context_for_query raises
          /\ Retrieves
          /\ ~Insistent
          /\ Fail(ExcRetrieval)
          /\ UNCHANGED <<contents, rag_context, varied>>

\* lines 277-321 and 368-373: one generation call and the inspection of its
\* response, up to the first yield
GenAIGenerate ==
    /\ orch = "genai"
    /\ pc = "gen"
    /\ iteration < max_iterations
    /\ iteration' = iteration + 1
    /\ gen_calls' = gen_calls + 1
    /\ UNCHANGED <<argvars, agentvars, contents, total_tool_calls,
                   text_response_count, result, fixedvars, ctxvars, dispatches>>
    /\ \/ \* generate_content raises
          /\ ~Insistent
          /\ Fail(ExcModel)
          /\ gen_failures' = Append(gen_failures, IF gen_calls = 0 THEN "first" ELSE "follow")
          /\ UNCHANGED <<total_text_emitted, response, function_calls, fci,
                         function_response_parts, tool_name, unanswered, varied>>
       \/ \E ps \in ModelAnswers :
            LET fcs == SelectSeq(ps, IsFC)
                text_parts == SelectSeq(ps, IsText)
                response_text_length == SumLen(text_parts)
            IN  /\ Spend(AnswerCost(ps))
                /\ UNCHANGED gen_failures
                /\ response' = ps
                /\ unanswered' = Len(fcs)
                /\ IF text_response_count > 0 /\ response_text_length > TextStopLength
                   THEN /\ pc' = "finish"
                        /\ UNCHANGED <<events, total_text_emitted, function_calls,
                                       fci, function_response_parts, tool_name>>
                   ELSE IF text_parts # <<>>
                   THEN /\ events' = events \o TextEvents(text_parts)
                        /\ total_text_emitted' = total_text_emitted + response_text_length
                        /\ pc' = "finish"
                        /\ UNCHANGED <<function_calls, fci, function_response_parts,
                                       tool_name>>
                   ELSE IF fcs # <<>>
                   THEN /\ function_calls' = fcs
                        /\ function_response_parts' = <<>>
                        /\ fci' = 1
                        /\ tool_name' = fcs[1].name
                        /\ events' = Append(events, ToolEvent(fcs[1].name, "running", NoResult))
                        /\ pc' = "tool_running"
                        /\ UNCHANGED total_text_emitted
                   ELSE /\ pc' = "finish"
                        /\ UNCHANGED <<events, total_text_emitted, function_calls,
                                       fci, function_response_parts, tool_name>>

\* lines 338-351: await _execute_tool, then yield the completed event
GenAIExecute ==
    /\ orch = "genai"
    /\ pc = "tool_running"
    /\ \E mode \in ToolAnswers :
         /\ GenAIRoute(tool_name) = "none" => mode = "ok"
         /\ Spend(Cost(mode = "ok"))
         /\ result' = GenAIExecuteTool(tool_name, BackendOutcome(mode, 0))
    /\ total_tool_calls' = total_tool_calls + 1
    /\ events' = Append(events, ToolEvent(tool_name, "completed", result'))
    /\ pc' = "tool_completed"
    /\ dispatches' = 1
    /\ UNCHANGED <<argvars, genaivars, agentvars, histvars, contents, tool_name,
                   fixedvars, ctxvars>>

\* variant of MoreCalls: a failed tool ends the processing of the turn
MoreCallsUnlessFailed == fci < Len(function_calls) /\ result.error = <<>>

\* line 324: the for loop over function_calls has a further element
MoreCalls == fci < Len(function_calls)

\* variant of CollectPart: the response is put before the ones collected
CollectPartFirst(parts, p) == <<p>> \o parts

\* lines 353-361: function_response_parts.append(...)
CollectPart(parts, p) == Append(parts, p)

\* lines 353-367 and 324-336: collect the function response; then the next
\* function call of the turn, or the turn is added to contents
GenAICollect ==
    /\ orch = "genai"
    /\ pc = "tool_completed"
    /\ LET parts == CollectPart(function_response_parts,
                            FRPart(tool_name, SerializeResult(result)))
       IN  /\ function_response_parts' = parts
           /\ IF MoreCalls
              THEN /\ fci' = fci + 1
                   /\ tool_name' = function_calls[fci + 1].name
                   /\ events' = Append(events,
                                  ToolEvent(function_calls[fci + 1].name, "running", NoResult))
                   /\ pc' = "tool_running"
                   /\ UNCHANGED <<contents, unanswered>>
              ELSE /\ contents' = contents \o
                          <<Content("model", response), Content("user", parts)>>
                   /\ unanswered' = unanswered - Len(parts)
                   /\ pc' = "gen"
                   /\ UNCHANGED <<fci, tool_name, events>>
    /\ UNCHANGED <<argvars, agentvars, total_tool_calls, iteration,
                   text_response_count, total_text_emitted, response,
                   function_calls, result, gen_calls, gen_failures, fixedvars, ctxvars,
                   dispatches, varied>>

\* lines 375-376: the loop is left (break, or range(max_iterations) exhausted)
GenAIDone ==
    /\ orch = "genai"
    /\ \/ pc = "finish"
       \/ pc = "gen" /\ iteration = max_iterations
    /\ events' = Append(events, DoneEvent)
    /\ pc' = "done"
    /\ UNCHANGED <<argvars, genaivars, agentvars, histvars, contents,
                   total_tool_calls, tool_name, result, fixedvars, ctxvars,
                   dispatches, varied>>

(***************************************************************************)
(* AgentOrchestrator: dispatch, retry, formatting, assembly                *)
(***************************************************************************)
AgentRoute(name) ==
    CASE name \in {"run_report", "run_realtime_report", "get_property_details",
                   "get_account_summaries"} -> "ga"
      [] name \in {"search_knowledge_base", "list_documents"} -> "kb"
      [] name = "web_search" -> "web"
      [] name = "bq_run_query" -> "bq"
      [] OTHER -> "none"

\* variant of AgentExecuteTool: a name that is not routed gives a plain result
AgentExecuteToolUnknownOk(name, outcome) ==
    IF AgentRoute(name) = "none" THEN OkResult
    ELSE CASE outcome = "ok" -> OkResult
           [] outcome = "error" -> ErrResult(<<"invalid", "argument">>)
           [] outcome = "timeout" -> ErrResult(<<"timeout">>)
           [] OTHER -> ErrResult(<<"boom">>)

\* _execute_tool (orchestrator.py, lines 615-655)
AgentExecuteTool(name, outcome) ==
    IF AgentRoute(name) = "none" THEN ErrResult(<<"Herramienta desconocida:", name>>)
    ELSE CASE outcome = "ok" -> OkResult
           [] outcome = "error" -> ErrResult(<<"invalid", "argument">>)
           [] outcome = "timeout" -> ErrResult(<<"timeout">>)
           [] OTHER -> ErrResult(<<"boom">>)

\* x in error_msg, for the words of the model: the name set_timeout holds
\* the substring timeout
Contains(error_msg, x) ==
    \E i \in 1..Len(error_msg) :
        error_msg[i] = x \/ (error_msg[i] = "set_timeout" /\ x = "timeout")

\* _execute_tool_with_retry, line 594: the error is one that is retried
Transient(res) ==
    \E x \in {"timeout", "rate limit", "temporarily"} : Contains(res.error, x)

\* _format_tool_result
FormatToolResult(name, res) ==
    IF res.error # <<>>
    THEN IF Contains(res.error, "timeout")
         THEN <<"La consulta tardo demasiado">>
         ELSE <<"No se pudieron obtener estos datos">>
    ELSE <<"formatted", res.data>>

SystemTurns ==
    <<Content("user", <<TextPart(<<"system_instruction">>)>>),
      Content("model", <<TextPart(<<"Entendido">>)>>)>>

AgentContents(msgs, mem, rag) ==
    SystemTurns \o
    [i \in 1..Len(msgs) |->
        LET msg == msgs[i]
            role == IF msg.role = "user" THEN "user" ELSE "model"
            context_parts ==
                (IF mem # ""
                 THEN <<"**Contexto de sesiones anteriores:**", mem>>
                 ELSE <<>>) \o
                (IF rag # ""
                 THEN <<"**Documentos relevantes:**", rag>> ELSE <<>>)
            content ==
                IF role = "user" /\ msg = msgs[Len(msgs)] /\ context_parts # <<>>
                THEN context_parts \o <<"**Pregunta del usuario:**", msg.content>>
                ELSE <<msg.content>>
        IN  Content(role, <<TextPart(content)>>)]

\* variant of ToolTurns: the function response is not added
ToolTurnsNoResponse(name, res, instruction) ==
    <<Content("model", <<FCPart(name)>>),
      Content("user", <<TextPart(<<instruction>>)>>)>>

\* the three turns appended after a tool call (lines 823-862 and 912-937)
ToolTurns(name, res, instruction) ==
    <<Content("model", <<FCPart(name)>>),
      Content("user", <<FRPart(name, SerializeForFunctionResponse(res))>>),
      Content("user", <<TextPart(<<instruction>>)>>)>>

NumFC(ps) == Len(SelectSeq(ps, IsFC))

(***************************************************************************)
(* AgentOrchestrator.stream_response                                       *)
(***************************************************************************)
(* AgentOrchestrator.stream_response                                       *)
(***************************************************************************)
\* lines 714-764: retrieval, memory and conversation assembly
AgentBuildContents ==
    /\ orch = "agent"
    /\ pc = "start"
    /\ UNCHANGED <<argvars, genaivars, agentvars, histvars, total_tool_calls,
                   tool_name, result, fixedvars, dispatches>>
    /\ \/ \E ctx \in RagContexts, mem \in MemoryContexts :
            /\ Retrieves \/ ctx = ""
            /\ Spend(Cost(ctx = "") + Cost(mem = ""))
            /\ rag_context' = ctx
            /\ memory_context' = mem
            /\ contents' = AgentContents(messages, mem, ctx)
            /\ pc' = "gen"
            /\ UNCHANGED events
       \/ \* get_context_for_query raises
          /\ Retrieves
          /\ ~Insistent
          /\ contents' = SystemTurns
          /\ Fail(ExcRetrieval)
          /\ UNCHANGED <<ctxvars, varied>>

\* lines 766-771: the first generation call
AgentGenerate ==
    /\ orch = "agent"
    /\ pc = "gen"
    /\ gen_calls' = gen_calls + 1
    /\ \/ \* generate_content raises
          /\ ~Insistent
          /\ Fail(ExcModel)
          /\ gen_failures' = Append(gen_failures, "first")
       \/ pc' = "chunk" /\ UNCHANGED <<events, gen_failures>>
    /\ UNCHANGED <<argvars, genaivars, agentvars, contents, total_tool_calls,
                   tool_name, result, unanswered, fixedvars, ctxvars, dispatches, varied>>

\* the part after chunk[pi] of the first response, or its next chunk
AdvancePart ==
    /\ pi' = pi + 1
    /\ pc' = IF pi + 1 <= Len(chunk) THEN "part" ELSE "chunk"

\* lines 777-785 and 976-993: the next chunk of the first response; at the end
\* of the stream the summary is stored and done is yielded
AgentNextChunk ==
    /\ orch = "agent"
    /\ pc = "chunk"
    /\ UNCHANGED <<argvars, genaivars, contents, total_tool_calls, tool_name, result,
                   tool_call_count, fchunks, follow_chunk, fi, has_function_call,
                   next_tool_name, next_result, attempt, backend, gen_calls, fixedvars,
                   ctxvars,
                   dispatches>>
    /\ \/ \* the stream is exhausted
          /\ Spend(Cost(chunk_count > 0))
          /\ events' = Append(events, DoneEvent)
          /\ pc' = "done"
          /\ UNCHANGED <<chunk_count, chunk, pi, unanswered, gen_failures>>
       \/ \* reading the stream raises
          /\ Spend(1)
          /\ Fail(ExcModel)
          /\ gen_failures' = Append(gen_failures, "first")
          /\ UNCHANGED <<chunk_count, chunk, pi, unanswered>>
       \/ \E ps \in ModelAnswers :
            /\ chunk_count < MaxChunks
            /\ Spend(Cost(chunk_count = 0) + AnswerCost(ps))
            /\ chunk_count' = chunk_count + 1
            /\ chunk' = ps
            /\ pi' = 1
            /\ unanswered' = unanswered + NumFC(ps)
            /\ pc' = IF ps = <<>> THEN "chunk" ELSE "part"
            /\ UNCHANGED <<events, gen_failures>>

\* lines 786-805 and 969-970: one part of a chunk of the first response
AgentPart ==
    /\ orch = "agent"
    /\ pc = "part"
    /\ UNCHANGED <<argvars, genaivars, histvars, contents, total_tool_calls, result,
                   chunk_count, chunk, tool_call_count, fchunks, follow_chunk, fi,
                   has_function_call, next_tool_name, next_result, attempt, backend,
                   fixedvars, ctxvars, dispatches, varied>>
    /\ IF IsFC(chunk[pi])
       THEN /\ tool_name' = chunk[pi].name
            /\ events' = Append(events, ToolEvent(chunk[pi].name, "running", NoResult))
            /\ pc' = "tool_running"
            /\ UNCHANGED pi
       ELSE /\ events' = Append(events, TextEvent(chunk[pi].text))
            /\ AdvancePart
            /\ UNCHANGED tool_name

\* _execute_tool_with_retry (lines 584-613) called at lines 808 and 896, then
\* the completed event (lines 812-820, 901-909)
AgentExecute ==
    /\ orch = "agent"
    /\ pc \in {"tool_running", "follow_running"}
    /\ LET name == IF pc = "tool_running" THEN tool_name ELSE next_tool_name
       IN  \E mode \in ToolAnswers :
             LET res == AgentExecuteTool(name, BackendOutcome(mode, attempt))
             IN  /\ dispatches' = IF attempt = 0 THEN 1 ELSE dispatches + 1
                 /\ IF attempt = 0
                    THEN /\ AgentRoute(name) = "none" => mode = "ok"
                         /\ Spend(Cost(mode = "ok"))
                    ELSE /\ mode = backend
                         /\ UNCHANGED varied
                 /\ IF Transient(res) /\ attempt < MAX_RETRIES - 1
                    THEN \* asyncio.sleep, continue
                         /\ attempt' = attempt + 1
                         /\ backend' = mode
                         /\ UNCHANGED <<pc, events, total_tool_calls, result, next_result>>
                    ELSE /\ attempt' = 0
                         /\ backend' = ""
                         /\ total_tool_calls' = total_tool_calls + 1
                         /\ events' = Append(events, ToolEvent(name, "completed", res))
                         /\ IF pc = "tool_running"
                            THEN /\ result' = res
                                 /\ pc' = "tool_completed"
                                 /\ UNCHANGED next_result
                            ELSE /\ next_result' = res
                                 /\ pc' = "follow_completed"
                                 /\ UNCHANGED result
    /\ UNCHANGED <<argvars, genaivars, histvars, contents, tool_name, chunk_count,
                   chunk, pi, tool_call_count, fchunks, follow_chunk, fi,
                   has_function_call, next_tool_name, fixedvars, ctxvars>>

\* lines 822-866: the call and its result are added to contents and the
\* follow-up loop is entered
AgentCollect ==
    /\ orch = "agent"
    /\ pc = "tool_completed"
    /\ contents' = contents \o ToolTurns(tool_name, result, "synthesis_instruction")
    /\ unanswered' = unanswered - 1
    /\ tool_call_count' = 1
    /\ pc' = "follow_gen"
    /\ UNCHANGED <<argvars, genaivars, events, total_tool_calls, tool_name, result,
                   chunk_count, chunk, pi, fchunks, follow_chunk, fi,
                   has_function_call, next_tool_name, next_result, attempt, backend,
                   gen_calls, gen_failures, fixedvars, ctxvars, dispatches, varied>>

\* variant of FollowUpFailed: the failure is reported as an error and ends
\* the stream
FollowUpFailedAsError ==
    /\ Fail(ExcModel)
    /\ UNCHANGED pi
    /\ gen_failures' = Append(gen_failures, "follow")

\* lines 952-967: a follow-up generation failed; the formatted result of the
\* tool call is yielded as text and the follow-up loop is left
FollowUpFailed ==
    /\ events' = Append(events, TextEvent(FormatToolResult(tool_name, result)))
    /\ AdvancePart
    /\ gen_failures' = Append(gen_failures, "follow")

\* lines 868-876: the head of the follow-up loop and a follow-up generation call
AgentFollowGenerate ==
    /\ orch = "agent"
    /\ pc = "follow_gen"
    /\ UNCHANGED <<argvars, genaivars, contents, total_tool_calls, tool_name, result,
                   chunk_count, chunk, tool_call_count, follow_chunk, fi,
                   next_tool_name, next_result, attempt, backend, unanswered,
                   fixedvars, ctxvars, dispatches, varied>>
    /\ IF tool_call_count < max_tool_calls
       THEN /\ gen_calls' = gen_calls + 1
            /\ \/ \* generate_content raises
                  /\ ~Insistent
                  /\ FollowUpFailed
                  /\ UNCHANGED <<has_function_call, fchunks>>
               \/ /\ has_function_call' = FALSE
                  /\ fchunks' = 0
                  /\ pc' = "follow_chunk"
                  /\ UNCHANGED <<events, pi, gen_failures>>
       ELSE /\ AdvancePart
            /\ UNCHANGED <<events, gen_calls, has_function_call, fchunks,
                           gen_failures>>

\* lines 877-878, 944-950: the next chunk of a follow-up response
AgentFollowNextChunk ==
    /\ orch = "agent"
    /\ pc = "follow_chunk"
    /\ UNCHANGED <<argvars, genaivars, contents, total_tool_calls, tool_name, result,
                   chunk_count, chunk, tool_call_count, has_function_call,
                   next_tool_name, next_result, attempt, backend, gen_calls, fixedvars,
                   ctxvars,
                   dispatches>>
    /\ \/ \* the stream is exhausted
          /\ Spend(Cost(fchunks > 0))
          /\ IF has_function_call
             THEN pc' = "follow_gen" /\ UNCHANGED pi
             ELSE AdvancePart
          /\ UNCHANGED <<events, fchunks, follow_chunk, fi, unanswered, gen_failures>>
       \/ \* reading the stream raises
          /\ Spend(1)
          /\ FollowUpFailed
          /\ UNCHANGED <<fchunks, follow_chunk, fi, unanswered>>
       \/ \* a chunk without parts whose text accessor gives text
          /\ fchunks < MaxChunks
          /\ Spend(1)
          /\ fchunks' = fchunks + 1
          /\ \E t \in ModelTexts : events' = Append(events, TextEvent(t))
          /\ UNCHANGED <<pc, pi, follow_chunk, fi, unanswered, gen_failures>>
       \/ \E ps \in ModelAnswers :
            /\ fchunks < MaxChunks
            /\ Spend(Cost(fchunks = 0) + AnswerCost(ps))
            /\ fchunks' = fchunks + 1
            /\ follow_chunk' = ps
            /\ fi' = 1
            /\ unanswered' = unanswered + NumFC(ps)
            /\ pc' = IF ps = <<>> THEN "follow_chunk" ELSE "follow_part"
            /\ UNCHANGED <<events, pi, gen_failures>>

\* lines 879-894 and 941-942: one part of a follow-up chunk
AgentFollowPart ==
    /\ orch = "agent"
    /\ pc = "follow_part"
    /\ UNCHANGED <<argvars, genaivars, histvars, contents, total_tool_calls,
                   tool_name, result, chunk_count, chunk, pi, tool_call_count,
                   fchunks, follow_chunk, next_result, attempt, backend, fixedvars,
                   ctxvars, dispatches,
                   varied>>
    /\ IF IsFC(follow_chunk[fi])
       THEN /\ has_function_call' = TRUE
            /\ next_tool_name' = follow_chunk[fi].name
            /\ events' = Append(events,
                           ToolEvent(follow_chunk[fi].name, "running", NoResult))
            /\ pc' = "follow_running"
            /\ UNCHANGED fi
       ELSE /\ events' = Append(events, TextEvent(follow_chunk[fi].text))
            /\ fi' = fi + 1
            /\ pc' = IF fi + 1 <= Len(follow_chunk) THEN "follow_part" ELSE "follow_chunk"
            /\ UNCHANGED <<has_function_call, next_tool_name>>

\* lines 911-939: the follow-up call and its result are added to contents;
\* break leaves the loop over the parts of this chunk
AgentFollowCollect ==
    /\ orch = "agent"
    /\ pc = "follow_completed"
    /\ contents' = contents \o ToolTurns(next_tool_name, next_result, "synthesis_reminder")
    /\ unanswered' = unanswered - 1
    /\ tool_call_count' = tool_call_count + 1
    /\ pc' = "follow_chunk"
    /\ UNCHANGED <<argvars, genaivars, events, total_tool_calls, tool_name, result,
                   chunk_count, chunk, pi, fchunks, follow_chunk, fi,
                   has_function_call, next_tool_name, next_result, attempt, backend,
                   gen_calls, gen_failures, fixedvars, ctxvars, dispatches, varied>>

(***************************************************************************)
(* The caller closes the event stream                                      *)
(***************************************************************************)
\* variant of Disconnect: the generator is not told and goes on
DisconnectUnnoticed ==
    /\ connected
    /\ pc # "done"
    /\ connected' = FALSE
    /\ UNCHANGED <<argvars, pc, contents, events, total_tool_calls, tool_name, result,
                   genaivars, agentvars, histvars, dispatches, ctxvars, insist,
                   chatvars, retrievalvars, varied, sidevars>>

\* the generator is suspended (at a yield, or awaiting retrieval or a tool) when
\* the stream is closed: GeneratorExit or CancelledError is raised at that
\* point; neither is an Exception, so no except clause of stream_response, of
\* _execute_tool or of _execute_tool_with_retry handles it and the generator
\* ends there
Disconnect ==
    /\ connected
    /\ pc # "done"
    /\ connected' = FALSE
    /\ pc' = "closed"
    /\ UNCHANGED <<argvars, contents, events, total_tool_calls, tool_name, result,
                   genaivars, agentvars, histvars, dispatches, ctxvars, insist,
                   chatvars, retrievalvars, varied, sidevars>>

(***************************************************************************)
(* stream_chat (backend/src/api/v1/chat.py): the user message is saved and *)
(* the history of the session is loaded for the orchestrator               *)
(***************************************************************************)
\* stored messages of the session before the request
MaxStored == 22
\* chat.py, line 297: .limit(20)
HistoryLimit == 20

\* orchestrator events before the end of the stream, in items (a text event
\* or the two events of a tool call)
MaxItems == 2

\* tool_calls of a ChatMessage: None, or {"calls": [...]}
NoToolCalls == [is_none |-> TRUE, calls |-> <<>>]
ToolCalls(data) == [is_none |-> FALSE, calls |-> data]

\* a ChatMessage row; created_at is the rank of the row in the session
ChatMessage(r, c, t) ==
    [role |-> r, content |-> c, created_at |-> t, tool_calls |-> NoToolCalls]

\* a session of n rows: user and assistant messages in turn
StoredSession(n) ==
    [t \in 1..n |-> IF t % 2 = 1 THEN ChatMessage("user", "clicks?", t)
                    ELSE ChatMessage("assistant", "1200", t)]

RequestMessages == {"clicks?", "visits?", "sessions?"}

\* lines 293-300: order_by(created_at.asc()).limit(20)
HistoryQuery(table) ==
    SubSeq(table, 1, IF Len(table) > HistoryLimit THEN HistoryLimit ELSE Len(table))

\* str(e) of the exception a database call raises
ExcDatabase == "connection is closed"

\* one SSE event: "data: " + json.dumps({"event": ..., "data": ...})
SseEvent(event, data) == <<"data:", JsonDumps([event |-> event, data |-> data])>>
SseDone == SseEvent("done", "session_id")
\* the event name and the data of an SSE event
SseName(line) == line[2][2].event
SseData(line) == line[2][2].data

\* the event streams of stream_response the request may meet: up to n items,
\* then done, or error and done (the except clause)
RECURSIVE StreamBodies(_)
StreamBodies(n) ==
    IF n = 0 THEN {<<>>}
    ELSE LET shorter == StreamBodies(n - 1)
             items == {<<TextEvent(<<"answer">>)>>,
                       <<ToolEvent(PlainTool, "running", NoResult),
                         ToolEvent(PlainTool, "completed", OkResult)>>}
         IN  shorter \cup {b \o i : b \in shorter, i \in items}
OrchestratorStreams ==
    {b \o e : b \in StreamBodies(MaxItems),
              e \in {<<DoneEvent>>, <<ErrorEvent(ExcModel), DoneEvent>>}}

\* event["data"] of a tool_call event
EventData(e) ==
    [tool_name |-> e.tool_name, tool_input |-> e.tool_input, status |-> e.status,
     result |-> e.result]

\* lines 340-342: the except clause of generate sends the error event
ChatExcept(msg) ==
    /\ sse' = Append(sse, SseEvent("error", <<msg>>))
    /\ chat_pc' = "finished"

\* lines 267-274: the user message is saved
ChatSaveUserMessage ==
    /\ chat_pc = "request"
    /\ stored' = Append(stored, ChatMessage("user", request_message, Len(stored) + 1))
    /\ chat_pc' = "saved"
    /\ UNCHANGED <<argvars, streamvars, request_message, history, stream, ei,
                   full_response, tool_calls_data, sse, retrievalvars, insist, varied, sidevars>>

\* lines 292-305: the history is loaded and turned into messages, or the
\* query raises
ChatLoadHistory ==
    /\ chat_pc = "saved"
    /\ \/ /\ history' = HistoryQuery(stored)
          /\ messages' = [i \in 1..Len(history') |->
                             [role |-> history'[i].role, content |-> history'[i].content]]
          /\ chat_pc' = "loaded"
          /\ UNCHANGED sse
       \/ /\ ChatExcept(ExcDatabase)
          /\ UNCHANGED <<history, messages>>
    /\ UNCHANGED <<orch, use_rag, streamvars, stored, request_message, stream, ei,
                   full_response, tool_calls_data, retrievalvars, insist, varied, sidevars>>

\* lines 307-312: orchestrator.stream_response is called
ChatStreamResponse ==
    /\ chat_pc = "loaded"
    /\ stream' \in OrchestratorStreams
    /\ ei' = 0
    /\ chat_pc' = "streaming"
    /\ UNCHANGED <<argvars, streamvars, stored, request_message, history, full_response,
                   tool_calls_data, sse, retrievalvars, insist, varied, sidevars>>

\* lines 308-326: one iteration of the async for over the events
ChatForward ==
    /\ chat_pc = "streaming"
    /\ ei < Len(stream)
    /\ ei' = ei + 1
    /\ LET event == stream[ei + 1]
       IN  CASE event.type = "text" ->
                  /\ full_response' = full_response \o event.content
                  /\ sse' = Append(sse, SseEvent("text", event.content))
                  /\ UNCHANGED <<tool_calls_data, chat_pc>>
             [] event.type = "tool_call" ->
                  /\ tool_calls_data' = Append(tool_calls_data, EventData(event))
                  /\ sse' = Append(sse, SseEvent("tool_call", EventData(event)))
                  /\ UNCHANGED <<full_response, chat_pc>>
             [] event.type = "error" ->
                  /\ sse' = Append(sse, SseEvent("error", event.content))
                  /\ UNCHANGED <<full_response, tool_calls_data, chat_pc>>
             [] OTHER ->
                  \* done: break
                  /\ chat_pc' = "save"
                  /\ UNCHANGED <<full_response, tool_calls_data, sse>>
    /\ UNCHANGED <<argvars, streamvars, stored, request_message, history, stream,
                   retrievalvars, insist, varied, sidevars>>

\* variant of AssistantMessage: tool_calls is left empty
AssistantMessageNoCalls(content, data, t) ==
    [role |-> "assistant", content |-> content, created_at |-> t,
     tool_calls |-> NoToolCalls]

\* the assistant message of lines 329-334
AssistantMessage(content, data, t) ==
    [role |-> "assistant", content |-> content, created_at |-> t,
     tool_calls |-> IF data # <<>> THEN ToolCalls(data) ELSE NoToolCalls]

\* lines 328-336: the assistant message is saved, or the commit raises
ChatSaveAssistant ==
    /\ chat_pc = "save"
    /\ \/ /\ stored' = Append(stored, AssistantMessage(full_response, tool_calls_data,
                                                       Len(stored) + 1))
          /\ chat_pc' = "committed"
          /\ UNCHANGED sse
       \/ /\ ChatExcept(ExcDatabase)
          /\ UNCHANGED stored
    /\ UNCHANGED <<argvars, streamvars, request_message, history, stream, ei,
                   full_response, tool_calls_data, retrievalvars, insist, varied, sidevars>>

\* line 338: the done event is sent
ChatDone ==
    /\ chat_pc = "committed"
    /\ sse' = Append(sse, SseDone)
    /\ chat_pc' = "finished"
    /\ UNCHANGED <<argvars, streamvars, stored, request_message, history, stream, ei,
                   full_response, tool_calls_data, retrievalvars, insist, varied, sidevars>>

\* the state of stream_chat outside a request
ChatIdle ==
    /\ stored = <<>>
    /\ request_message = ""
    /\ chat_pc = "idle"
    /\ history = <<>>
    /\ stream = <<>>
    /\ ei = 0
    /\ full_response = <<>>
    /\ tool_calls_data = <<>>
    /\ sse = <<>>

(***************************************************************************)
(* Retrieval (backend/src/rag/retrieval.py): search_similar_chunks and     *)
(* get_context_for_query.  Similarities are in hundredths.                 *)
(***************************************************************************)
\* rows of document_chunks
MaxRows == 2

\* retrieval.py, line 94: threshold = 0.7
DefaultThreshold == 70
\* retrieval.py, line 93: top_k = 5
DefaultTopK == 5

Similarities == {DefaultThreshold - 1, DefaultThreshold, DefaultThreshold + 1}
\* token_count of a row (0: not set) and number of words of its content
TokenCounts == {0, 1, 2}
WordCounts == {1, 3}
MaxTokensArgs == {2, 3}
TopKArgs == {1, DefaultTopK}

ChunkRows == [similarity : Similarities, token_count : TokenCounts, words : WordCounts]
Tables == UNION {[1..n -> ChunkRows] : n \in 0..MaxRows}

\* lines 76-86: the ChunkResponse built from row i
ChunkResponse(table, i) ==
    [id |-> i, similarity |-> table[i].similarity,
     token_count |-> table[i].token_count, words |-> table[i].words]

\* variant of AboveThreshold: the threshold itself passes
AtOrAboveThreshold(similarity, thr) == similarity >= thr

\* line 54: 1 - (embedding <=> query) > :threshold
AboveThreshold(similarity, thr) == similarity > thr

\* lines 44-86: the results the query may give: the rows above the threshold,
\* by descending similarity (rows of equal similarity in any order), at most
\* k of them
SearchSimilarChunks(table, thr, k) ==
    LET matching == {i \in 1..Len(table) : AboveThreshold(table[i].similarity, thr)}
        n == IF Cardinality(matching) > k THEN k ELSE Cardinality(matching)
        orders == {q \in [1..n -> matching] :
                     /\ \A a, b \in 1..n : a < b =>
                          /\ q[a] # q[b]
                          /\ table[q[a]].similarity >= table[q[b]].similarity
                     /\ \A i \in matching :
                          (\A a \in 1..n : q[a] # i) =>
                              \A a \in 1..n : table[q[a]].similarity >= table[i].similarity}
    IN  {[a \in 1..n |-> ChunkResponse(table, q[a])] : q \in orders}

\* line 125: chunk.token_count or len(chunk.content.split())
ChunkTokens(c) == IF c.token_count # 0 THEN c.token_count ELSE c.words

\* variant of Overflows: a chunk that fills the budget exactly is refused
OverflowsOrFills(total, chunk_tokens, budget) == total + chunk_tokens >= budget

\* line 127: total_tokens + chunk_tokens > max_tokens
Overflows(total, chunk_tokens, budget) == total + chunk_tokens > budget

\* lines 130-132: "[Source i] (similarity: ...)\n content"
ContextPart(i, c) == [source |-> i, similarity |-> c.similarity, content |-> c.id]

\* the empty string, and lines 138-142: the parts between header and footer
EmptyContext == [framed |-> FALSE, parts |-> <<>>]
FormatContext(parts) == [framed |-> TRUE, parts |-> parts]

\* lines 111-119: search_similar_chunks is awaited; without chunks "" is returned
RetrievalSearch ==
    /\ rpc = "search"
    /\ \/ \E found \in SearchSimilarChunks(rows, threshold, top_k) :
            /\ chunks' = found
            /\ ci' = 1
            /\ IF found = <<>>
               THEN rpc' = "returned" /\ context' = EmptyContext
               ELSE rpc' = "loop" /\ UNCHANGED context
       \/ \* generate_single_embedding or db.execute raises
          /\ rpc' = "raised"
          /\ UNCHANGED <<chunks, ci, context>>
    /\ UNCHANGED <<argvars, streamvars, chatvars, rows, threshold, top_k, max_tokens,
                   accepted, total_tokens, insist, varied, sidevars>>

\* lines 124-133: one iteration of the for loop that accepts the chunk
RetrievalAccept ==
    /\ rpc = "loop"
    /\ ci <= Len(chunks)
    /\ ~Overflows(total_tokens, ChunkTokens(chunks[ci]), max_tokens)
    /\ accepted' = Append(accepted, ContextPart(ci, chunks[ci]))
    /\ total_tokens' = total_tokens + ChunkTokens(chunks[ci])
    /\ ci' = ci + 1
    /\ UNCHANGED <<argvars, streamvars, chatvars, rows, threshold, top_k, max_tokens,
                   rpc, chunks, context, insist, varied, sidevars>>

\* lines 127-128 and 135-142: the loop ends (break or exhausted) and the
\* context is returned
RetrievalReturn ==
    /\ rpc = "loop"
    /\ \/ ci > Len(chunks)
       \/ ci <= Len(chunks) /\ Overflows(total_tokens, ChunkTokens(chunks[ci]), max_tokens)
    /\ context' = IF accepted = <<>> THEN EmptyContext ELSE FormatContext(accepted)
    /\ rpc' = "returned"
    /\ UNCHANGED <<argvars, streamvars, chatvars, rows, threshold, top_k, max_tokens,
                   chunks, ci, accepted, total_tokens, insist, varied, sidevars>>

\* the state of retrieval outside a call
RetrievalIdle ==
    /\ rows = <<>>
    /\ threshold = DefaultThreshold
    /\ top_k = DefaultTopK
    /\ max_tokens = 0
    /\ rpc = "idle"
    /\ chunks = <<>>
    /\ ci = 0
    /\ accepted = <<>>
    /\ total_tokens = 0
    /\ context = EmptyContext

(***************************************************************************)
(* The memory of the agent (backend/src/mcp/memory.py) as used by          *)
(* AgentOrchestrator.stream_response for the runs of several chat sessions *)
(***************************************************************************)
\* runs of stream_response that store a summary
MaxRuns == 3

\* memory.py, line 393: limit=10
SummaryLimit == 10

ChatSessions == {"A", "B"}

\* chat.py, lines 308-312: stream_response is called without session_id;
\* orchestrator.py, line 701: session_id = "default"
DefaultSessionId == "default"
\* orchestrator.py, line 657 and memory.py, line 119: user_id = "default"
DefaultUserId == "default"

\* messages[-1].get("content", "")[:200]; the messages of the model are
\* shorter than 200 characters
First200(content) == content

\* memory.py, lines 141-150: the row store_context inserts; origin is not a
\* column: it records the chat session whose run stored the row
ContextRow(session_id, user_id, summary, origin) ==
    [session_id |-> session_id, user_id |-> user_id, context_type |-> "summary",
     summary |-> summary, origin |-> origin]

RECURSIVE Reverse(_)
Reverse(s) == IF s = <<>> THEN <<>> ELSE Append(Reverse(Tail(s)), Head(s))

\* memory.py, lines 166-217: the rows of the user, newest first, at most n
\* (all rows have the default importance)
GetContext(table, user_id, n) ==
    LET found == Reverse(SelectSeq(table, LAMBDA r : r.user_id = user_id))
    IN  SubSeq(found, 1, IF Len(found) > n THEN n ELSE Len(found))

\* memory.py, lines 381-409: get_conversation_summary
ConversationSummary(context_rows) ==
    IF context_rows = <<>> THEN ""
    ELSE <<"**Contexto de sesiones anteriores:**">> \o
         [k \in 1..Len(context_rows) |-> <<"- Resumen previo:", context_rows[k].summary>>]

\* orchestrator.py, lines 657-673: _get_memory_context of a run of session s
GetMemoryContext(s) ==
    IF memory_enabled
    THEN ConversationSummary(GetContext(context_table, DefaultUserId, SummaryLimit))
    ELSE ""

\* the same, had no other chat session stored anything
GetOwnMemoryContext(s) ==
    IF memory_enabled
    THEN ConversationSummary(
             SelectSeq(GetContext(context_table, DefaultUserId, SummaryLimit),
                       LAMBDA r : r.origin = s))
    ELSE ""

\* orchestrator.py, lines 743-764: a run of session s for the message m reads
\* the memory context and assembles its contents
MemoryRunStart ==
    /\ Len(context_table) < MaxRuns
    /\ \E s \in ChatSessions, m \in RequestMessages :
         /\ session_pc[s] = "idle"
         /\ session_pc' = [session_pc EXCEPT ![s] = "running"]
         /\ session_msg' = [session_msg EXCEPT ![s] = m]
         /\ session_contents' =
               [session_contents EXCEPT ![s] = AgentContents(<<UserMsg(m)>>, GetMemoryContext(s), "")]
         /\ session_alone' =
               [session_alone EXCEPT ![s] = AgentContents(<<UserMsg(m)>>, GetOwnMemoryContext(s), "")]
    /\ UNCHANGED <<argvars, streamvars, chatvars, retrievalvars, insist, varied,
                   memory_enabled, context_table, chunkvars, ingestvars>>

\* orchestrator.py, lines 978-990: at the end of the run the summary is stored
MemoryRunEnd ==
    /\ \E s \in ChatSessions :
         /\ session_pc[s] = "running"
         /\ session_pc' = [session_pc EXCEPT ![s] = "idle"]
         /\ context_table' =
               IF memory_enabled
               THEN Append(context_table,
                           ContextRow(DefaultSessionId, DefaultUserId,
                                      First200(session_msg[s]), s))
               ELSE context_table
    /\ UNCHANGED <<argvars, streamvars, chatvars, retrievalvars, insist, varied,
                   memory_enabled, session_msg, session_contents, session_alone,
                   chunkvars, ingestvars>>

\* no run of any chat session has taken place
MemoryIdle ==
    /\ memory_enabled = TRUE
    /\ context_table = <<>>
    /\ session_pc = [s \in ChatSessions |-> "idle"]
    /\ session_msg = [s \in ChatSessions |-> ""]
    /\ session_contents = [s \in ChatSessions |-> <<>>]
    /\ session_alone = [s \in ChatSessions |-> <<>>]

(***************************************************************************)
(* chunk_text (backend/src/rag/ingestion.py, lines 107-147).  A text is a  *)
(* sequence of characters; positions are counted from 0 as in the code.    *)
(***************************************************************************)
\* length of the texts
MaxTextLen == 8

Chars == {"a", ".", " "}
Whitespace == {" ", "\n", "\t"}
Texts == UNION {[1..n -> Chars] : n \in 0..MaxTextLen}
\* the pairs (chunk_size, overlap) of the calls, overlap < chunk_size
ChunkSizes == {3, 7}
Overlaps == {0, 6}

\* line 133: the sentence endings, in the order they are tried
Separators == << <<".", " ">>, <<".", "\n">>, <<"?", " ">>, <<"!", "\n">>, <<"\n", "\n">> >>

\* a slice bound of Python: negative bounds count from the end, and bounds
\* are clipped to 0..n
PyBound(i, n) ==
    IF i < 0 THEN (IF i + n < 0 THEN 0 ELSE i + n) ELSE IF i > n THEN n ELSE i

\* s[a:b]
Slice(s, a, b) ==
    LET lo == PyBound(a, Len(s))
        hi == PyBound(b, Len(s))
    IN  IF lo >= hi THEN <<>> ELSE SubSeq(s, lo + 1, hi)

\* s.rfind(sep, a, b): the highest position in s[a:b] where sep starts, or -1
RFind(s, sep, a, b) ==
    LET lo == PyBound(a, Len(s))
        hi == PyBound(b, Len(s))
        found == {i \in lo..(hi - Len(sep)) : SubSeq(s, i + 1, i + Len(sep)) = sep}
    IN  IF found = {} THEN -1 ELSE CHOOSE i \in found : \A j \in found : j <= i

RECURSIVE StripLeft(_)
StripLeft(s) == IF s # <<>> /\ Head(s) \in Whitespace THEN StripLeft(Tail(s)) ELSE s

RECURSIVE StripRight(_)
StripRight(s) ==
    IF s # <<>> /\ s[Len(s)] \in Whitespace THEN StripRight(SubSeq(s, 1, Len(s) - 1)) ELSE s

\* variant of Strip: nothing is removed
StripNothing(s) == s

\* s.strip()
Strip(s) == StripRight(StripLeft(s))

RECURSIVE SentenceEnd(_, _, _, _, _)
\* lines 133-137: the end after the for loop over the separators from the
\* k-th on: the first separator found beyond the middle of the window cuts it
SentenceEnd(s, from, end, size, k) ==
    IF k > Len(Separators) THEN end
    ELSE LET sep == Separators[k]
             last_sep == RFind(s, sep, from, end)
         IN  IF last_sep > from + (size \div 2)
             THEN last_sep + Len(sep)
             ELSE SentenceEnd(s, from, end, size, k + 1)

\* lines 128-137: the end of the chunk that starts at from
ChunkEnd(s, from, size) ==
    IF from + size < Len(s) THEN SentenceEnd(s, from, from + size, size, 1) ELSE from + size

\* iterations of the while loop TLC follows
MaxIterations == MaxTextLen + 2

\* lines 121-126: the early return and the initialisation
ChunkTextEnter ==
    /\ cpc = "call"
    /\ IF Strip(text) = <<>>
       THEN cpc' = "returned"
       ELSE cpc' = "loop"
    /\ start' = 0
    /\ text_chunks' = <<>>
    /\ UNCHANGED <<argvars, streamvars, chatvars, retrievalvars, insist, varied, memvars, ingestvars,
                   text, chunk_size, overlap, iterations>>

\* lines 127-145: one iteration of the while loop
ChunkTextIterate ==
    /\ cpc = "loop"
    /\ start < Len(text)
    /\ iterations < MaxIterations
    /\ LET end == ChunkEnd(text, start, chunk_size)
           piece == Strip(Slice(text, start, end))
       IN  /\ text_chunks' = IF piece # <<>> THEN Append(text_chunks, piece) ELSE text_chunks
           /\ start' = IF end < Len(text) THEN end - overlap ELSE Len(text)
    /\ iterations' = iterations + 1
    /\ UNCHANGED <<argvars, streamvars, chatvars, retrievalvars, insist, varied, memvars, ingestvars,
                   text, chunk_size, overlap, cpc>>

\* line 147: the loop is left and chunks is returned
ChunkTextReturn ==
    /\ cpc = "loop"
    /\ start >= Len(text)
    /\ cpc' = "returned"
    /\ UNCHANGED <<argvars, streamvars, chatvars, retrievalvars, insist, varied, memvars, ingestvars,
                   text, chunk_size, overlap, start, text_chunks, iterations>>

\* chunk_text is not being called
ChunkIdle ==
    /\ text = <<>>
    /\ chunk_size = 0
    /\ overlap = 0
    /\ start = 0
    /\ text_chunks = <<>>
    /\ cpc = "idle"
    /\ iterations = 0


(***************************************************************************)
(* documents.py and ingestion.py: upload_document, reindex_document and     *)
(* the background runs of process_document for one document               *)
(***************************************************************************)
\* process_document runs queued for the document
MaxTasks == 3
\* chunks that chunk_text makes of the text of the uploaded file
MaxFileChunks == 2
Tasks == 1..MaxTasks

\* scalar_one_or_none() of the documents table before the upload
NoDocument == [status |-> "absent", chunk_count |-> 0]
\* schemas/documents.py: DocumentStatus
DocumentStatus == {"pending", "processing", "indexed", "error"}
DocumentRow(status, count) == [status |-> status, chunk_count |-> count]

\* database/models.py: a row of document_chunks; the primary key id is a fresh
\* uuid, here the run that added the row and its position
DocumentChunk(t, i) == [id |-> <<t, i>>, chunk_index |-> i]

\* background_tasks.add_task(process_document, ...): the next run is queued
AddTask(ts) ==
    LET t == CHOOSE u \in Tasks : ts[u] = "none" /\ \A v \in Tasks : v < u => ts[v] # "none"
    IN  [ts EXCEPT ![t] = "queued"]

\* documents.py lines 134-158: the row is created as pending and a run is queued
UploadDocument ==
    /\ document = NoDocument
    /\ document' = DocumentRow("pending", 0)
    /\ tasks' = AddTask(tasks)
    /\ UNCHANGED <<argvars, streamvars, chatvars, retrievalvars, insist, varied, memvars,
                   chunkvars, document_chunks, file_chunks>>

\* documents.py lines 326-354: the chunks are deleted, the row is reset to
\* pending with chunk_count 0, and another run is queued; a run that is already
\* under way is not looked at
ReindexDocument ==
    /\ document # NoDocument
    /\ \E t \in Tasks : tasks[t] = "none"
    /\ document_chunks' = {}
    /\ document' = DocumentRow("pending", 0)
    /\ tasks' = AddTask(tasks)
    /\ UNCHANGED <<argvars, streamvars, chatvars, retrievalvars, insist, varied, memvars,
                   chunkvars, file_chunks>>

\* ingestion.py lines 161-175: the run loads the row and commits status processing
ProcessStart(t) ==
    /\ tasks[t] = "queued"
    /\ document # NoDocument
    /\ document' = [document EXCEPT !.status = "processing"]
    /\ tasks' = [tasks EXCEPT ![t] = "processing"]
    /\ UNCHANGED <<argvars, streamvars, chatvars, retrievalvars, insist, varied, memvars,
                   chunkvars, document_chunks, file_chunks>>

\* ingestion.py lines 181-195: no text or no chunks
ProcessNoText(t) ==
    /\ tasks[t] = "processing"
    /\ file_chunks = 0
    /\ document' = [document EXCEPT !.status = "error"]
    /\ tasks' = [tasks EXCEPT ![t] = "finished"]
    /\ UNCHANGED <<argvars, streamvars, chatvars, retrievalvars, insist, varied, memvars,
                   chunkvars, document_chunks, file_chunks>>

\* ingestion.py lines 206-214: db.add(chunk) for every chunk
AddChunks(old, new) == old \cup new

\* ingestion.py lines 203-223: after the embeddings the run adds one row per
\* chunk, sets status indexed and chunk_count, and commits
ProcessIndexed(t) ==
    /\ tasks[t] = "processing"
    /\ file_chunks > 0
    /\ document_chunks' = AddChunks(document_chunks,
                                    {DocumentChunk(t, i) : i \in 0..(file_chunks - 1)})
    /\ document' = DocumentRow("indexed", file_chunks)
    /\ tasks' = [tasks EXCEPT ![t] = "finished"]
    /\ UNCHANGED <<argvars, streamvars, chatvars, retrievalvars, insist, varied, memvars,
                   chunkvars, file_chunks>>

\* ingestion.py lines 231-240: extract_text or generate_embeddings raises
ProcessExcept(t) ==
    /\ tasks[t] = "processing"
    /\ document' = [document EXCEPT !.status = "error"]
    /\ tasks' = [tasks EXCEPT ![t] = "finished"]
    /\ UNCHANGED <<argvars, streamvars, chatvars, retrievalvars, insist, varied, memvars,
                   chunkvars, document_chunks, file_chunks>>

\* no document has been uploaded
IngestIdle ==
    /\ document = NoDocument
    /\ document_chunks = {}
    /\ file_chunks = 0
    /\ tasks = [t \in Tasks |-> "none"]
\* the locals of stream_response at its entry
StreamStart ==
    /\ pc = "start"
    /\ contents = <<>>
    /\ rag_context = ""
    /\ memory_context = ""
    /\ events = <<>>
    /\ total_tool_calls = 0
    /\ iteration = 0
    /\ text_response_count = 0
    /\ total_text_emitted = 0
    /\ response = <<>>
    /\ function_calls = <<>>
    /\ fci = 0
    /\ function_response_parts = <<>>
    /\ tool_name = ""
    /\ result = NoResult
    /\ gen_calls = 0
    /\ chunk_count = 0
    /\ chunk = <<>>
    /\ pi = 0
    /\ tool_call_count = 0
    /\ fchunks = 0
    /\ follow_chunk = <<>>
    /\ fi = 0
    /\ has_function_call = FALSE
    /\ next_tool_name = ""
    /\ next_result = NoResult
    /\ attempt = 0
    /\ backend = ""
    /\ unanswered = 0
    /\ gen_failures = <<>>
    /\ connected = TRUE
    /\ dispatches = 0

Init ==
    /\ orch \in {"genai", "agent"}
    /\ insist \in 0..MaxParts
    /\ messages \in MessageLists
    /\ use_rag \in BOOLEAN
    /\ varied = Cost(messages = NominalMessages) + Cost(use_rag)
    /\ varied <= MaxVaried
    /\ Insistent => varied = 0
    /\ StreamStart
    /\ ChatIdle
    /\ RetrievalIdle
    /\ MemoryIdle
    /\ ChunkIdle
    /\ IngestIdle

Next ==
    \/ GenAIBuildContents
    \/ GenAIGenerate
    \/ GenAIExecute
    \/ GenAICollect
    \/ GenAIDone
    \/ AgentBuildContents
    \/ AgentGenerate
    \/ AgentNextChunk
    \/ AgentPart
    \/ AgentExecute
    \/ AgentCollect
    \/ AgentFollowGenerate
    \/ AgentFollowNextChunk
    \/ AgentFollowPart
    \/ AgentFollowCollect
    \/ Disconnect

Spec == Init /\ [][Next]_vars

(***************************************************************************)
(* stream_chat up to the call of the orchestrator                          *)
(***************************************************************************)
\* the orchestrator before its call
StreamIdle ==
    /\ orch = "genai"
    /\ insist = 0
    /\ use_rag = TRUE
    /\ varied = 0
    /\ StreamStart

InitChat ==
    /\ StreamIdle
    /\ RetrievalIdle
    /\ MemoryIdle
    /\ ChunkIdle
    /\ IngestIdle
    /\ messages = <<>>
    /\ \E n \in 0..MaxStored : stored = StoredSession(n)
    /\ request_message \in RequestMessages
    /\ chat_pc = "request"
    /\ history = <<>>
    /\ stream = <<>>
    /\ ei = 0
    /\ full_response = <<>>
    /\ tool_calls_data = <<>>
    /\ sse = <<>>

NextChat ==
    \/ ChatSaveUserMessage
    \/ ChatLoadHistory
    \/ ChatStreamResponse
    \/ ChatForward
    \/ ChatSaveAssistant
    \/ ChatDone

SpecChat == InitChat /\ [][NextChat]_vars

(***************************************************************************)
(* One call of get_context_for_query                                       *)
(***************************************************************************)
InitRetrieval ==
    /\ StreamIdle
    /\ ChatIdle
    /\ MemoryIdle
    /\ ChunkIdle
    /\ IngestIdle
    /\ messages = NominalMessages
    /\ rows \in Tables
    /\ threshold = DefaultThreshold
    /\ top_k \in TopKArgs
    /\ max_tokens \in MaxTokensArgs
    /\ rpc = "search"
    /\ chunks = <<>>
    /\ ci = 0
    /\ accepted = <<>>
    /\ total_tokens = 0
    /\ context = EmptyContext

NextRetrieval ==
    \/ RetrievalSearch
    \/ RetrievalAccept
    \/ RetrievalReturn

SpecRetrieval == InitRetrieval /\ [][NextRetrieval]_vars

(***************************************************************************)
(* Runs of AgentOrchestrator.stream_response for two chat sessions         *)
(***************************************************************************)
InitMemory ==
    /\ StreamIdle
    /\ ChatIdle
    /\ RetrievalIdle
    /\ messages = NominalMessages
    /\ memory_enabled \in BOOLEAN
    /\ context_table = <<>>
    /\ session_pc = [s \in ChatSessions |-> "idle"]
    /\ session_msg = [s \in ChatSessions |-> ""]
    /\ session_contents = [s \in ChatSessions |-> <<>>]
    /\ session_alone = [s \in ChatSessions |-> <<>>]
    /\ ChunkIdle
    /\ IngestIdle

NextMemory ==
    \/ MemoryRunStart
    \/ MemoryRunEnd

SpecMemory == InitMemory /\ [][NextMemory]_vars

(***************************************************************************)
(* One call of chunk_text                                                  *)
(***************************************************************************)
InitChunk ==
    /\ StreamIdle
    /\ ChatIdle
    /\ RetrievalIdle
    /\ MemoryIdle
    /\ IngestIdle
    /\ messages = NominalMessages
    /\ text \in Texts
    /\ chunk_size \in ChunkSizes
    /\ overlap \in Overlaps
    /\ overlap < chunk_size
    /\ start = 0
    /\ text_chunks = <<>>
    /\ cpc = "call"
    /\ iterations = 0

NextChunk ==
    \/ ChunkTextEnter
    \/ ChunkTextIterate
    \/ ChunkTextReturn

SpecChunk == InitChunk /\ [][NextChunk]_vars


InitIngest ==
    /\ StreamIdle
    /\ ChatIdle
    /\ RetrievalIdle
    /\ MemoryIdle
    /\ ChunkIdle
    /\ messages = NominalMessages
    /\ document = NoDocument
    /\ document_chunks = {}
    /\ file_chunks \in 0..MaxFileChunks
    /\ tasks = [t \in Tasks |-> "none"]

NextIngest ==
    \/ UploadDocument
    \/ ReindexDocument
    \/ \E t \in Tasks : ProcessStart(t)
    \/ \E t \in Tasks : ProcessNoText(t)
    \/ \E t \in Tasks : ProcessIndexed(t)
    \/ \E t \in Tasks : ProcessExcept(t)

SpecIngest == InitIngest /\ [][NextIngest]_vars
(***************************************************************************)
(* Properties                                                              *)
(***************************************************************************)
HasEvent(type) == \E i \in 1..Len(events) : events[i].type = type

\* the states in which the next step of the loop is a generation call
AtGenerationCall ==
    \/ orch = "genai" /\ pc = "gen" /\ iteration < 10
    \/ orch = "agent" /\ pc = "gen"
    \/ orch = "agent" /\ pc = "follow_gen" /\ tool_call_count < 10

\* C1: in both orchestrators a done event, once yielded, is the last event of
\* the stream (so there is at most one), and a finished invocation has yielded
\* it, whatever the model, retrieval or the tools answered or raised.
C1_ExactlyOneDoneLast ==
    /\ \A i \in 1..Len(events) : events[i].type = "done" => i = Len(events)
    /\ pc = "done" <=> (events # <<>> /\ events[Len(events)].type = "done")

\* C1 witness: an invocation that ended after a tool round-trip and a failed
\* generation call
C1_Witness ==
    /\ pc = "done"
    /\ HasEvent("error")
    /\ HasEvent("tool_call")

\* the function responses in turn u answer the function calls in turn m, one
\* response per call, matched by position and name
Answers(m, u) ==
    LET calls == SelectSeq(m.parts, IsFC)
    IN  /\ u.role = "user"
        /\ Len(u.parts) = Len(calls)
        /\ \A k \in 1..Len(calls) :
             u.parts[k].kind = "fr" /\ u.parts[k].name = calls[k].name

NoDanglingCall(transcript) ==
    \A i \in 1..Len(transcript) :
        (\E k \in 1..Len(transcript[i].parts) : IsFC(transcript[i].parts[k]))
        => /\ transcript[i].role = "model"
           /\ i < Len(transcript)
           /\ Answers(transcript[i], transcript[i + 1])

\* C2: whenever the loop is about to issue a generation call, every turn of
\* contents that holds function calls is immediately followed by a user turn
\* holding the matching function responses.
C2_NoDanglingToolCall == AtGenerationCall => NoDanglingCall(contents)

\* C2 witness: a generation call is due after two tool round-trips, one of
\* them a turn with two function calls
C2_Witness ==
    /\ AtGenerationCall
    /\ gen_calls >= 2
    /\ total_tool_calls >= 3
    /\ \E i \in 1..Len(contents) : Len(SelectSeq(contents[i].parts, IsFC)) = 2

\* C3: GenAIOrchestrator issues at most 10 generation calls, and when the
\* 10th call has been answered with function calls only, the loop yields done
\* as its next event and ends.
\* (The steps are those of the loop while the caller is connected.)
C3_GenAIAtMostTenGenerations ==
    /\ [](orch = "genai" => gen_calls <= 10)
    /\ [][(orch = "genai" /\ pc = "gen" /\ gen_calls = 10 /\ connected')
            => (events' = Append(events, DoneEvent) /\ pc' = "done"
                /\ gen_calls' = gen_calls)]_vars

\* C3 witness: ten generation calls, each answered with a function call, no
\* text, and the stream closed with done
C3_Witness ==
    /\ orch = "genai"
    /\ pc = "done"
    /\ gen_calls = 10
    /\ total_tool_calls >= 10
    /\ ~HasEvent("text")
    /\ ~HasEvent("error")

\* C4: AgentOrchestrator executes at most 10 tool calls and issues at most 10
\* generation calls in one invocation, however many function-call parts or
\* chunks the responses hold.
C4_AgentAtMostTenCalls ==
    orch = "agent" => (total_tool_calls <= 10 /\ gen_calls <= 10)

\* the invocation ended because the cap of the loop was reached: the 10th
\* GenAI response asked for tools only, or the Agent follow-up counter reached 10
CapReached ==
    \/ /\ orch = "genai"
       /\ gen_calls = 10
       /\ response # <<>>
       /\ \A k \in 1..Len(response) : IsFC(response[k])
    \/ /\ orch = "agent"
       /\ tool_call_count >= 10

\* C5: a stream that ends because the cap was reached holds a text event or
\* an error event before its done event.
C5_NoBareDoneAtCap ==
    (pc = "done" /\ CapReached) => (HasEvent("text") \/ HasEvent("error"))

\* C6: whenever a generation call is about to be issued, every function call
\* received so far has been executed and answered in contents.
C6_AllCallsAnsweredBeforeGeneration == AtGenerationCall => unanswered = 0

\* C7: once a text event has been yielded, no step issues a generation call.
C7_NoGenerationAfterText == [][HasEvent("text") => gen_calls' = gen_calls]_vars

\* a response content or chunk with both function-call parts and text parts
Mixed(ps) ==
    /\ \E k \in 1..Len(ps) : IsFC(ps[k])
    /\ \E k \in 1..Len(ps) : IsText(ps[k])

EndsInError ==
    /\ pc = "done"
    /\ Len(events) >= 2
    /\ events[Len(events) - 1].type = "error"
    /\ events[Len(events)].type = "done"

Completed(evs) ==
    SelectSeq(evs, LAMBDA e : e.type = "tool_call" /\ e.status = "completed")

\* C10: in GenAIOrchestrator, every function call of a turn is executed
\* whether or not an earlier one of the turn failed; when the next generation
\* call is due, the last two turns of contents are the model turn and a user
\* turn with one function response per call, each carrying the serialized
\* result (error included) of the execution of that call.
\* (The steps are those of the loop while the caller is connected.)
C10_FailedToolDoesNotAbortTurn ==
    /\ []((orch = "genai" /\ pc = "gen" /\ gen_calls > 0)
          => LET n == Len(contents)
                 u == contents[n]
                 done_evs == Completed(events)
                 k == Len(u.parts)
             IN  /\ contents[n - 1] = Content("model", response)
                 /\ Answers(contents[n - 1], u)
                 /\ k <= Len(done_evs)
                 /\ \A j \in 1..k :
                      /\ u.parts[j].name = done_evs[Len(done_evs) - k + j].tool_name
                      /\ u.parts[j].result =
                           SerializeResult(done_evs[Len(done_evs) - k + j].result))
    /\ [][(orch = "genai" /\ pc = "tool_completed" /\ connected')
          => IF fci < Len(function_calls)
             THEN pc' = "tool_running" /\ tool_name' = function_calls[fci + 1].name
             ELSE pc' = "gen"]_vars

\* C10 witness: a generation call is due after a turn of two function calls
\* whose first call failed and whose second call succeeded
C10_Witness ==
    /\ orch = "genai"
    /\ pc = "gen"
    /\ iteration < 10
    /\ Len(contents) >= 2
    /\ LET u == contents[Len(contents)]
       IN  /\ Len(u.parts) = 2
           /\ u.parts[1].kind = "fr"
           /\ \E m \in {<<"boom">>, <<"Unknown tool:", "foo_bar">>} :
                u.parts[1].result = SerializeResult(ErrResult(m))
           /\ u.parts[2] = FRPart(PlainTool, SerializeResult(OkResult))

\* the tool call being executed or collected
CurrentTool ==
    IF pc \in {"follow_running", "follow_completed"} THEN next_tool_name ELSE tool_name

\* no branch of _execute_tool routes the name
Unregistered(name) ==
    IF orch = "genai" THEN GenAIRoute(name) = "none" ELSE AgentRoute(name) = "none"

\* the dict _execute_tool returns for a name it does not route
UnknownToolResult(name) ==
    IF orch = "genai" THEN ErrResult(<<"Unknown tool:", name>>)
    ELSE ErrResult(<<"Herramienta desconocida:", name>>)

\* C11: a call of a tool that is not registered ends with a completed event
\* carrying the error dict of _execute_tool (never with an error event); that
\* dict, serialized, becomes the function response of the call and the loop
\* goes on; every error event of a stream comes from retrieval or from a
\* generation call.
\* (The steps are those of the loop while the caller is connected.)
C11_UnknownToolIsFedBack ==
    /\ [][(pc \in {"tool_running", "follow_running"} /\ Unregistered(CurrentTool)
            /\ pc' # pc /\ connected')
          => /\ events' = Append(events, ToolEvent(CurrentTool, "completed",
                                                   UnknownToolResult(CurrentTool)))
             /\ pc' \in {"tool_completed", "follow_completed"}]_vars
    /\ [][(pc \in {"tool_completed", "follow_completed"} /\ Unregistered(CurrentTool)
            /\ connected')
          => LET fr == FRPart(CurrentTool,
                              SerializeResult(UnknownToolResult(CurrentTool)))
             IN  /\ pc' \in {"tool_completed", "follow_completed", "tool_running",
                             "gen", "follow_gen", "follow_chunk"}
                 /\ \A i \in 1..Len(events') : events'[i].type # "error"
                 /\ IF orch = "genai"
                    THEN function_response_parts'[Len(function_response_parts')] = fr
                    ELSE contents'[Len(contents') - 1] = Content("user", <<fr>>)]_vars
    /\ [](\A i \in 1..Len(events) :
            events[i].type = "error" =>
                events[i].content \in {<<ExcRetrieval>>, <<ExcModel>>})

\* C11 witness: an Agent invocation that called an unregistered tool, fed the
\* error back, generated again and ended without an error event
C11_Witness ==
    /\ orch = "agent"
    /\ pc = "done"
    /\ ~HasEvent("error")
    /\ gen_calls >= 2
    /\ \E i \in 1..Len(events) :
         events[i] = ToolEvent("foo_bar", "completed",
                               ErrResult(<<"Herramienta desconocida:", "foo_bar">>))
    /\ \E i \in 1..Len(contents) :
         contents[i] = Content("user",
             <<FRPart("foo_bar", SerializeForFunctionResponse(
                   ErrResult(<<"Herramienta desconocida:", "foo_bar">>)))>>)

\* the result of the tool call that has just been completed
CurrentResult == IF pc = "follow_completed" THEN next_result ELSE result

\* a tool call has just been completed
JustCompleted == pc \in {"tool_completed", "follow_completed"}

\* C12: no tool call is dispatched more than 3 times; in
\* _execute_tool_with_retry a dispatch is repeated only while fewer than 3 have
\* been made, and a call that ends with a transient error (timeout, rate
\* limit, temporarily) has been dispatched exactly 3 times and returns that
\* error dict.
C12_TransientRetriedThreeTimes ==
    /\ [](dispatches <= 3)
    /\ []((orch = "agent" /\ JustCompleted /\ Transient(CurrentResult))
          => (dispatches = 3 /\ CurrentResult.error # <<>>))
    /\ [][(orch = "agent" /\ pc \in {"tool_running", "follow_running"} /\ pc' = pc
            /\ dispatches' # dispatches)
          => (dispatches' < 3 /\ total_tool_calls' = total_tool_calls)]_vars

\* C12 witness: an Agent tool call whose backend timed out on every attempt
\* has been completed after three dispatches
C12_Witness ==
    /\ orch = "agent"
    /\ JustCompleted
    /\ CurrentTool = PlainTool
    /\ CurrentResult = ErrResult(<<"timeout">>)
    /\ dispatches = 3

\* C13: in both orchestrators a tool call that ends with a transient error
\* has been dispatched more than once.
C13_EveryCallIsRetried ==
    (JustCompleted /\ Transient(CurrentResult)) => dispatches >= 2

\* C14: a tool call that fails because the tool is not registered or because
\* the backend rejects the arguments has been dispatched exactly once.
C14_PermanentDispatchedOnce ==
    (JustCompleted
        /\ (Unregistered(CurrentTool) \/ CurrentResult = ErrResult(<<"invalid", "argument">>)))
    => dispatches = 1

\* C15: no error event of a stream comes from a failure of retrieval.
C15_RetrievalFailureDegrades ==
    \A i \in 1..Len(events) :
        events[i].type = "error" => events[i].content # <<ExcRetrieval>>

\* the conversation has been assembled and no generation call issued yet
Assembled == pc = "gen" /\ gen_calls = 0

\* number of turns of contents that precede the history
Preamble == IF orch = "agent" THEN Len(SystemTurns) ELSE 0

\* message i of the history as a turn, verbatim
Verbatim(i) ==
    Content(IF messages[i].role = "user" THEN "user" ELSE "model",
            <<TextPart(<<messages[i].content>>)>>)

\* C17: the assembled conversation holds one turn per message, in order, and
\* every turn before the final one is the message verbatim.
C17_PriorTurnsVerbatim ==
    Assembled =>
        /\ Len(contents) = Preamble + Len(messages)
        /\ \A i \in 1..(Len(messages) - 1) : contents[Preamble + i] = Verbatim(i)

\* C18: when retrieval returned the empty string and there is no memory
\* context, the final turn of the assembled conversation is the last message
\* verbatim, and so is every other turn.
C18_EmptyContextAddsNothing ==
    (Assembled /\ rag_context = "" /\ memory_context = "")
        => /\ Len(contents) = Preamble + Len(messages)
           /\ \A i \in 1..Len(messages) : contents[Preamble + i] = Verbatim(i)

\* C18 witness: GenAI assembled a history of three messages after retrieval
\* ran and returned the empty string
C18_Witness ==
    /\ orch = "genai"
    /\ Assembled
    /\ use_rag
    /\ rag_context = ""
    /\ Len(messages) = 3
    /\ contents[3] = Content("user", <<TextPart(<<"clicks?">>)>>)

(***************************************************************************)
(* stream_chat: the transcript handed to the orchestrator                  *)
(***************************************************************************)
\* the role and content of a stored message, as stream_chat hands it over
Turn(m) == [role |-> m.role, content |-> m.content]

\* C16: when the stored history exceeds the limit of 20 messages the ones
\* left out are the oldest: the transcript sent to the model is the most
\* recent turns, the last of them the user message of the current request.
C16_OldestDroppedFirst ==
    chat_pc = "loaded" =>
        LET n == Len(stored)
            k == IF n > HistoryLimit THEN HistoryLimit ELSE n
        IN  /\ Len(messages) = k
            /\ \A j \in 1..k : messages[j] = Turn(stored[n - k + j])
            /\ messages[k] = UserMsg(request_message)

(***************************************************************************)
(* get_context_for_query and search_similar_chunks                         *)
(***************************************************************************)
RECURSIVE PrefixTokens(_, _)
\* the token estimate of the first k chunks
PrefixTokens(cs, k) == IF k = 0 THEN 0 ELSE PrefixTokens(cs, k - 1) + ChunkTokens(cs[k])

\* the length of the longest prefix of cs within the budget
LongestPrefix(cs, budget) ==
    CHOOSE k \in 0..Len(cs) :
        /\ PrefixTokens(cs, k) <= budget
        /\ \A l \in 0..Len(cs) : PrefixTokens(cs, l) <= budget => l <= k

\* the search has answered
Searched == rpc \in {"loop", "returned"}

\* C19: get_context_for_query accepts exactly the longest prefix of the
\* score-ordered chunk list whose cumulative token estimate does not exceed
\* max_tokens: the chunks come by descending score, the accepted estimates
\* never sum to more than max_tokens, no chunk is accepted after the first
\* that would overflow, and with no chunk accepted the result is the empty
\* string.
C19_LongestPrefixWithinBudget ==
    /\ Searched =>
          /\ \A a, b \in 1..Len(chunks) : a < b => chunks[a].similarity >= chunks[b].similarity
          /\ total_tokens = PrefixTokens(chunks, Len(accepted))
          /\ total_tokens <= max_tokens
          /\ Len(accepted) <= Len(chunks)
          /\ \A j \in 1..Len(accepted) : accepted[j] = ContextPart(j, chunks[j])
    /\ rpc = "returned" =>
          /\ Len(accepted) = LongestPrefix(chunks, max_tokens)
          /\ context = IF accepted = <<>> THEN EmptyContext ELSE FormatContext(accepted)

\* a call that returned after the budget refused a chunk following an
\* accepted one
C19_Witness ==
    /\ rpc = "returned"
    /\ 0 < Len(accepted)
    /\ Len(accepted) < Len(chunks)
    /\ context = FormatContext(accepted)

\* the ids of the chunks returned
Returned == {chunks[a].id : a \in 1..Len(chunks)}

\* C20: a chunk is returned by search_similar_chunks only if its score is
\* strictly greater than the threshold: a chunk whose score equals the
\* threshold is excluded, and one whose score is greater is included (as far
\* as top_k allows).
C20_StrictThreshold ==
    Searched =>
        /\ \A a \in 1..Len(chunks) :
              /\ chunks[a].similarity > threshold
              /\ chunks[a].id \in 1..Len(rows)
              /\ chunks[a].similarity = rows[chunks[a].id].similarity
        /\ \A i \in 1..Len(rows) :
              /\ rows[i].similarity = threshold => i \notin Returned
              /\ (rows[i].similarity > threshold /\ i \notin Returned) => Len(chunks) = top_k

\* of a row at the threshold and a row above it, only the second is returned
C20_Witness ==
    /\ Searched
    /\ \E i, j \in 1..Len(rows) :
          /\ rows[i].similarity = threshold
          /\ rows[j].similarity > threshold
          /\ Returned = {j}
          /\ Len(chunks) < top_k

(***************************************************************************)
(* What the caller is told of a failure                                    *)
(***************************************************************************)
\* str(e) of the exceptions raised by the database, the retrieval backend
\* and the model API
RawExceptionTexts == {ExcRetrieval, ExcModel}

\* C21: every error event delivered to the caller carries a classified,
\* user-safe message, never the raw text of an exception of a backend, the
\* database or the model API.
C21_ErrorsAreClassified ==
    \A k \in 1..Len(events) :
        events[k].type = "error" =>
            \A t \in RawExceptionTexts : events[k].content # <<t>>

(***************************************************************************)
(* The order of the events of a tool call                                  *)
(***************************************************************************)
IsToolEvent(e, s) == e.type = "tool_call" /\ e.status = s

\* a tool call is awaited (its running event is the last event)
InFlight == pc \in {"tool_running", "follow_running"}

\* the text events of the stream
TextDeltas == SelectSeq(events, LAMBDA e : e.type = "text")

\* a finished run of one tool round-trip, answered by one text delta after
\* the call, without failure
OneRoundTrip ==
    /\ pc = "done"
    /\ gen_calls = 2
    /\ gen_failures = <<>>
    /\ ~HasEvent("error")
    /\ Len(Completed(events)) = 1
    /\ Completed(events)[1].result.error = <<>>
    /\ events[1].type = "tool_call"
    /\ Len(TextDeltas) = 1

\* C24: every running tool_call event is followed, with no event in between,
\* by the completed tool_call event of the same tool name and input (or the
\* call is still awaited, or the caller left while it was), every completed
\* event follows its running event,
\* and a run of one tool round-trip answered by one text delta without failure
\* streams exactly: running, completed, text, done.
C24_RunningThenCompleted ==
    /\ \A k \in 1..Len(events) :
          /\ IsToolEvent(events[k], "running") =>
                IF k = Len(events)
                THEN InFlight \/ ~connected
                ELSE /\ IsToolEvent(events[k + 1], "completed")
                     /\ events[k + 1].tool_name = events[k].tool_name
                     /\ events[k + 1].tool_input = events[k].tool_input
          /\ IsToolEvent(events[k], "completed") =>
                k > 1 /\ IsToolEvent(events[k - 1], "running")
    /\ OneRoundTrip =>
          /\ Len(events) = 4
          /\ IsToolEvent(events[1], "running")
          /\ IsToolEvent(events[2], "completed")
          /\ events[3].type = "text"
          /\ events[4] = DoneEvent

\* a finished run of one round-trip of run_report answered by text
C24_Witness ==
    /\ OneRoundTrip
    /\ events[1] = ToolEvent(PlainTool, "running", NoResult)
    /\ events[2] = ToolEvent(PlainTool, "completed", OkResult)
    /\ events[3].type = "text"

(***************************************************************************)
(* The order of the function responses of a turn                           *)
(***************************************************************************)
\* part p answers the function call c
Matches(p, c) == p.kind = "fr" /\ c.kind = "fc" /\ p.name = c.name

\* the function calls of a model turn, in the order of its parts
CallsOf(turn) == SelectSeq(turn.parts, IsFC)

\* C27: in GenAIOrchestrator the function responses collected for a model
\* turn answer the first calls of the turn, by position and tool name, while
\* the turn is processed, and the user turn appended to the transcript holds
\* exactly one response per requested call, in the order of the calls.
C27_ResponsesInCallOrder ==
    /\ (orch = "genai" /\ pc \in {"tool_running", "tool_completed"}) =>
          /\ function_calls = CallsOf(Content("model", response))
          /\ Len(function_response_parts) = fci - 1
          /\ \A j \in 1..Len(function_response_parts) :
                Matches(function_response_parts[j], function_calls[j])
    /\ (orch = "genai" /\ pc = "gen" /\ gen_calls > 0) =>
          LET n == Len(contents)
              calls == CallsOf(contents[n - 1])
          IN  /\ contents[n - 1].role = "model"
              /\ contents[n].role = "user"
              /\ Len(contents[n].parts) = Len(calls)
              /\ \A j \in 1..Len(calls) : Matches(contents[n].parts[j], calls[j])

\* a turn that requested run_report and then foo_bar has been answered
C27_Witness ==
    /\ orch = "genai"
    /\ pc = "gen"
    /\ gen_calls > 0
    /\ LET n == Len(contents)
       IN  /\ CallsOf(contents[n - 1]) = <<FCPart("run_report"), FCPart("foo_bar")>>
           /\ Len(contents[n].parts) = 2
           /\ contents[n].parts[1].name = "run_report"
           /\ contents[n].parts[2].name = "foo_bar"

(***************************************************************************)
(* The caller disconnects                                                  *)
(***************************************************************************)
\* the tool calls started so far
Started == SelectSeq(events, LAMBDA e : IsToolEvent(e, "running"))

DonesSent == SelectSeq(sse, LAMBDA line : SseName(line) = "done")

\* C23: the SSE stream of a finished request ends with the done event, which
\* is its only done event, also when the orchestrator reported an error and
\* when reading the history or saving the assistant message raised (an error
\* event then precedes the done event).
C23_SseEndsWithOneDone ==
    chat_pc = "finished" =>
        /\ Len(sse) > 0
        /\ SseName(sse[Len(sse)]) = "done"
        /\ Len(DonesSent) = 1

(***************************************************************************)
(* The assistant message stream_chat persists                              *)
(***************************************************************************)
RECURSIVE TextOf(_)
\* the contents of the text events of evs, concatenated in order
TextOf(evs) ==
    IF evs = <<>> THEN <<>>
    ELSE (IF evs[1].type = "text" THEN evs[1].content ELSE <<>>) \o TextOf(Tail(evs))

RECURSIVE DataOf(_)
\* the data of the tool_call events of evs, in order
DataOf(evs) ==
    IF evs = <<>> THEN <<>>
    ELSE (IF evs[1].type = "tool_call" THEN <<EventData(evs[1])>> ELSE <<>>)
         \o DataOf(Tail(evs))

\* the orchestrator run of the request has reached its done event
RunReachedDone ==
    /\ chat_pc \in {"save", "committed", "finished"}
    /\ stream # <<>>
    /\ ei = Len(stream)
    /\ stream[ei] = DoneEvent

\* the last two rows of the session are the user message of the request and
\* the assistant message made of the events of the run
OneAssistantMessage ==
    LET n == Len(stored)
    IN  /\ n >= 2
        /\ stored[n - 1].role = "user"
        /\ stored[n - 1] = ChatMessage("user", request_message, n - 1)
        /\ stored[n].role = "assistant"
        /\ stored[n].created_at = n
        /\ stored[n].content = TextOf(stream)
        /\ stored[n].tool_calls =
              IF DataOf(stream) = <<>> THEN NoToolCalls ELSE ToolCalls(DataOf(stream))

\* no assistant message of the request is stored
NoAssistantMessage ==
    /\ stored[Len(stored)].role = "user"
    /\ stored[Len(stored)] = ChatMessage("user", request_message, Len(stored))

C22_SessionsShareNothing ==
    \A s \in ChatSessions : session_contents[s] = session_alone[s]

(***************************************************************************)
(* chunk_text                                                              *)
(***************************************************************************)
\* the text holds only whitespace (or nothing)
Blank(s) == \A i \in 1..Len(s) : s[i] \in Whitespace

\* the chunks returned are non-empty and at most chunk_size characters long
ChunksWithinSize ==
    \A k \in 1..Len(text_chunks) :
        Len(text_chunks[k]) > 0 /\ Len(text_chunks[k]) <= chunk_size

C29_StartIncreases ==
    [][(cpc = "loop" /\ cpc' = "loop") => start' > start]_vars

\* C30: after any interleaving of upload, reindex requests and runs of
\* process_document for one document, whenever the status of the document is
\* indexed its chunk_count is the number of rows of document_chunks and no two
\* rows have the same chunk_index
C30_IndexedCountMatchesRows ==
    document.status = "indexed" =>
        /\ document.chunk_count = Cardinality(document_chunks)
        /\ \A a, b \in document_chunks : a.chunk_index = b.chunk_index => a = b

====
